---- MODULE Spec2Model ----
(***************************************************************************)
(* Model of app/api/get-next-completion-stream-promise/route.ts: the POST  *)
(* handler that loads a chat history, reduces it (code-block stripping and *)
(* length capping), dispatches to one of two completion providers and, for  *)
(* the Gemini provider, re-frames the upstream chunks as an SSE stream.     *)
(*                                                                         *)
(* Message contents are sequences of one-character strings; the backtick   *)
(* is written BT.  Model names and SSE text are TLA+ strings.               *)
(***************************************************************************)
EXTENDS Integers, Sequences, FiniteSets, TLC

VARIABLES
  store,        \* the message table: a set of rows
  pc,           \* POST: "idle" | "streaming" | "responded"
  request,      \* the parsed request body, <<>> before it arrives
  messagesRes,  \* rows returned by findMany
  messages,     \* the handler's `messages` after line 64
  response,     \* what POST returned
  geminiCalls,  \* requests handed to geminiModel.generateContentStream
  togetherCalls,\* requests handed to together.chat.completions.create
  startPc,      \* start(controller): "none" | "loop" | "finished" | "failed"
  upstream,     \* texts of the chunks result.stream has yielded so far
  stream,       \* the ReadableStream: state, queue, closeRequested
  emitted,      \* every chunk start() has passed to controller.enqueue
  delivered,    \* chunks the response's consumer has read from the stream
  selPc,        \* selector run: "off", "input", "stripped", "restripped", "capped"
  history,      \* selector run: the input list
  stripped,     \* optimizeMessagesForTokens(history)
  restripped,   \* optimizeMessagesForTokens(stripped)
  capped        \* the capping step applied to stripped

handlerVars == <<store, pc, request, messagesRes, messages, response,
                 geminiCalls, togetherCalls, startPc, upstream, stream,
                 emitted, delivered>>
selectorVars == <<selPc, history, stripped, restripped, capped>>
vars == <<handlerVars, selectorVars>>

----------------------------------------------------------------------------
(* Bounds of the model *)

MaxHist == 12       \* messages in the long chat of a store
MaxChunks == 3      \* chunks the upstream sequence yields before it stops
MaxList == 4        \* length of the enumerated short histories
MaxTokens == 6      \* tokens in the enumerated message contents

----------------------------------------------------------------------------
(* Text *)

BT == "BT"

IsWhitespace(c) == c \in {" ", "\n", "\t"}

Fence == <<BT, BT, BT>>

\* s has the delimiter at index i (1-based)
FenceAt(s, i) == i + 2 <= Len(s) /\ SubSeq(s, i, i + 2) = Fence

\* msg.content.replace(/```[\s\S]*?```/g, ""): leftmost match, lazy body,
\* scanning resumes after each match
RECURSIVE ReplaceFrom(_, _)
ReplaceFrom(s, i) ==
  IF i > Len(s) THEN <<>>
  ELSE IF FenceAt(s, i) /\ \E j \in (i + 3)..Len(s) : FenceAt(s, j)
    THEN LET closing == CHOOSE j \in (i + 3)..Len(s) :
                          /\ FenceAt(s, j)
                          /\ \A k \in (i + 3)..(j - 1) : ~FenceAt(s, k)
         IN ReplaceFrom(s, closing + 3)
    ELSE <<s[i]>> \o ReplaceFrom(s, i + 1)

\* the same replace without the g flag: only the first match is removed
RemoveFirstCodeBlock(s) ==
  IF \E i \in 1..Len(s) : FenceAt(s, i) /\ \E j \in (i + 3)..Len(s) : FenceAt(s, j)
    THEN LET open == CHOOSE i \in 1..Len(s) :
                       /\ FenceAt(s, i) /\ \E j \in (i + 3)..Len(s) : FenceAt(s, j)
                       /\ \A k \in 1..(i - 1) :
                            ~(FenceAt(s, k) /\ \E j \in (k + 3)..Len(s) : FenceAt(s, j))
             closing == CHOOSE j \in (open + 3)..Len(s) :
                          /\ FenceAt(s, j)
                          /\ \A k \in (open + 3)..(j - 1) : ~FenceAt(s, k)
         IN SubSeq(s, 1, open - 1) \o SubSeq(s, closing + 3, Len(s))
    ELSE s

RemoveCodeBlocks(s) == ReplaceFrom(s, 1)

RECURSIVE TrimStart(_)
TrimStart(s) ==
  IF s # <<>> /\ IsWhitespace(Head(s)) THEN TrimStart(Tail(s)) ELSE s

RECURSIVE TrimEnd(_)
TrimEnd(s) ==
  IF s # <<>> /\ IsWhitespace(s[Len(s)])
    THEN TrimEnd(SubSeq(s, 1, Len(s) - 1)) ELSE s

Trim(s) == TrimEnd(TrimStart(s))

StripContent(content) == Trim(RemoveCodeBlocks(content))

----------------------------------------------------------------------------
(* optimizeMessagesForTokens, lines 7-30 (indices are 1-based here) *)

\* variant: a single exempt assistant message
ExemptCountOne == 2 - 1

ExemptCount == 2

\* the loop of lines 12-20: from the end, collect assistant indices until
\* ExemptCount are found
RECURSIVE CollectAssistant(_, _, _)
CollectAssistant(msgs, i, acc) ==
  IF i >= 1 /\ Len(acc) < ExemptCount
    THEN CollectAssistant(msgs, i - 1,
           IF msgs[i].role = "assistant" THEN Append(acc, i) ELSE acc)
    ELSE acc

assistantIndices(msgs) == CollectAssistant(msgs, Len(msgs), <<>>)

Includes(seq, x) == \E k \in 1..Len(seq) : seq[k] = x

\* variant: no assistant message is exempt
optimizeEveryAssistant(msgs) ==
  [index \in 1..Len(msgs) |->
     IF msgs[index].role = "assistant"
       THEN [msgs[index] EXCEPT !.content = StripContent(@)]
       ELSE msgs[index]]

optimizeMessagesForTokens(msgs) ==
  [index \in 1..Len(msgs) |->
     IF msgs[index].role = "assistant"
        /\ ~Includes(assistantIndices(msgs), index)
       THEN [msgs[index] EXCEPT !.content = StripContent(@)]
       ELSE msgs[index]]

----------------------------------------------------------------------------
(* The capping step, lines 62-64 *)

CapThreshold == 10
TailKept == 7

\* Array.prototype.slice(-n)
SliceLast(seq, n) ==
  LET from == IF Len(seq) - n < 0 THEN 0 ELSE Len(seq) - n
  IN SubSeq(seq, from + 1, Len(seq))

\* variant: slice(-10), the first three entries are not kept
CapMessagesLastOnly(msgs) ==
  IF Len(msgs) > CapThreshold THEN SliceLast(msgs, CapThreshold) ELSE msgs

\* variant: slice(0, 10), the most recent entries are not kept
CapMessagesFirstOnly(msgs) ==
  IF Len(msgs) > CapThreshold THEN SubSeq(msgs, 1, CapThreshold) ELSE msgs

CapMessages(msgs) ==
  IF Len(msgs) > CapThreshold
    THEN <<msgs[1], msgs[2], msgs[3]>> \o SliceLast(msgs, TailKept)
    ELSE msgs

----------------------------------------------------------------------------
(* The message table read through prisma, lines 38-49.  A row's id is the  *)
(* pair of its chat and position; positions are unique within a chat.       *)

Roles == {"system", "user", "assistant"}

Row(chatId, position, role, content) ==
  [id |-> <<chatId, position>>, chatId |-> chatId, position |-> position,
   role |-> role, content |-> content]

Repeat(c, n) == [k \in 1..n |-> c]

CodeAnswer(i) == Fence \o <<"a">> \o Fence \o <<" ">> \o Repeat("x", i)

DialogueRow(i) ==
  IF i = 0 THEN Row("c1", 0, "system", <<"s">>)
  ELSE IF i % 2 = 1 THEN Row("c1", i, "user", Repeat("u", i))
  ELSE Row("c1", i, "assistant", CodeAnswer(i))

\* a second chat; its last row carries a role outside the enum of line 54
OtherChat ==
  {Row("c2", 0, "user", <<"h", "i">>), Row("c2", 1, "tool", <<"t">>)}

DialogueStore == {DialogueRow(i) : i \in 0..(MaxHist - 1)} \cup OtherChat

\* [sys, "hi", "```a```", "```b```", "```c```"], the last three by the assistant
ExampleStore ==
  { Row("c1", 0, "system", <<"s", "y", "s">>),
    Row("c1", 1, "user", <<"h", "i">>),
    Row("c1", 2, "assistant", Fence \o <<"a">> \o Fence),
    Row("c1", 3, "assistant", Fence \o <<"b">> \o Fence),
    Row("c1", 4, "assistant", Fence \o <<"c">> \o Fence) } \cup OtherChat

Stores == {DialogueStore, ExampleStore}

MessageIds == {<<"c1", i>> : i \in 0..(MaxHist - 1)}
                \cup {<<"c2", 0>>, <<"c2", 1>>, <<"c9", 0>>}

\* variant: an unknown id falls back to the first message of chat c1
findUniqueOrFirst(table, id) ==
  IF \E r \in table : r.id = id THEN {r \in table : r.id = id}
  ELSE {r \in table : r.id = <<"c1", 0>>}

\* prisma.message.findUnique({ where: { id } }): the row, or none (null)
findUnique(table, id) == {r \in table : r.id = id}

RECURSIVE SortByPosition(_)
SortByPosition(rows) ==
  IF rows = {} THEN <<>>
  ELSE LET first == CHOOSE r \in rows :
                      \A q \in rows : r.position <= q.position
       IN <<first>> \o SortByPosition(rows \ {first})

\* prisma.message.findMany({ where: { chatId, position: { lte } },
\*                           orderBy: { position: "asc" } })
findMany(table, chatId, position) ==
  SortByPosition({r \in table : r.chatId = chatId /\ r.position <= position})

\* the zod schema of lines 51-58 accepts the rows
ParseOk(rows) == \A k \in 1..Len(rows) : rows[k].role \in Roles

\* z.array(z.object({role, content})).parse(rows).  position is kept as an
\* annotation of where the entry came from; the handler never reads it.
Parse(rows) ==
  [k \in 1..Len(rows) |->
     [role |-> rows[k].role, content |-> rows[k].content,
      position |-> rows[k].position]]

----------------------------------------------------------------------------
(* Provider dispatch, lines 66-128 *)

Marker == "gemini"

Models == {"gemini-1.5-pro", "google/gemini-flash", "Gemini-Pro", "gpt-4o"}

\* variant: String.prototype.startsWith
StringIncludesPrefixOnly(s, m) ==
  Len(m) <= Len(s) /\ SubSeq(s, 1, Len(m)) = m

\* String.prototype.includes
StringIncludes(s, m) ==
  \E i \in 1..(Len(s) - Len(m) + 1) : SubSeq(s, i, i + Len(m) - 1) = m

UsesGemini(model) == StringIncludes(model, Marker)

\* lines 74-80
GeminiRequest(msgs) ==
  LET turns == SelectSeq(msgs, LAMBDA m : m.role # "system")
      systems == SelectSeq(msgs, LAMBDA m : m.role = "system")
  IN [model |-> "gemini-1.5-pro",
      contents |-> [k \in 1..Len(turns) |->
                      [role |-> IF turns[k].role = "assistant"
                                  THEN "model" ELSE "user",
                       parts |-> <<[text |-> turns[k].content]>>]],
      systemInstruction |-> IF systems = <<>> THEN <<>>
                            ELSE <<systems[1].content>>]

\* lines 120-126
TogetherRequest(model, msgs) ==
  [model |-> model,
   messages |-> [k \in 1..Len(msgs) |->
                   [role |-> msgs[k].role, content |-> msgs[k].content]],
   stream |-> TRUE, temperature |-> "0.4", max_tokens |-> 9000]

NoResponse == [kind |-> "none", status |-> 0, body |-> "", contentType |-> ""]
NotFound == [kind |-> "response", status |-> 404, body |-> "null", contentType |-> ""]
SseResponse ==
  [kind |-> "response", status |-> 200, body |-> "stream",
   contentType |-> "text/event-stream"]
ForwardedResponse ==
  [kind |-> "response", status |-> 200, body |-> "res.toReadableStream()",
   contentType |-> ""]
\* an exception leaves POST: no Response is constructed
Unhandled == [kind |-> "unhandled", status |-> 0, body |-> "", contentType |-> ""]

----------------------------------------------------------------------------
(* The stream translator, lines 83-104 *)

AsciiLow ==
  " !\"#$%&'()*+,-./0123456789:;<=>?@ABCDEFGHIJKLMNOPQRSTUVWXYZ[\\]^_"
AsciiHigh == "abcdefghijklmnopqrstuvwxyz{|}~"

CharAt(s, i) == SubSeq(s, i, i)

\* UTF-8 code of a character (ASCII range)
CharCode(c) ==
  IF c = "\n" THEN 10
  ELSE IF c = "\t" THEN 9
  ELSE IF \E i \in 1..Len(AsciiLow) : CharAt(AsciiLow, i) = c
    THEN 31 + (CHOOSE i \in 1..Len(AsciiLow) : CharAt(AsciiLow, i) = c)
  ELSE 96 + (CHOOSE i \in 1..Len(AsciiHigh) : CharAt(AsciiHigh, i) = c)

\* new TextEncoder().encode(s)
Encode(s) == [i \in 1..Len(s) |-> CharCode(CharAt(s, i))]

\* the escapes JSON.stringify applies inside a string literal
JsonEscape(c) ==
  IF c = "\"" THEN "\\\""
  ELSE IF c = "\\" THEN "\\\\"
  ELSE IF c = "\n" THEN "\\n"
  ELSE IF c = "\t" THEN "\\t"
  ELSE c

RECURSIVE JsonEscapeFrom(_, _)
JsonEscapeFrom(s, i) ==
  IF i > Len(s) THEN "" ELSE JsonEscape(CharAt(s, i)) \o JsonEscapeFrom(s, i + 1)

\* variant: the text is quoted without escaping
JsonStringRaw(s) == "\"" \o s \o "\""

JsonString(s) == "\"" \o JsonEscapeFrom(s, 1) \o "\""

\* JSON.stringify({ choices: [{ delta: { content: text } }] })
StringifyPayload(text) ==
  "{\"choices\":[{\"delta\":{\"content\":" \o JsonString(text) \o "}}]}"

\* line 94
DataEvent(text) == Encode("data: " \o StringifyPayload(text) \o "\n\n")

\* line 98
DoneEvent == Encode("data: [DONE]\n\n")

ChunkTexts == {"", "He", "\"\\\n"}

NoStream == [state |-> "none", queue |-> <<>>, closeRequested |-> FALSE]

\* new ReadableStream({ start })
NewStream == [state |-> "readable", queue |-> <<>>, closeRequested |-> FALSE]

\* controller.enqueue(chunk)
Enqueue(s, chunk) == [s EXCEPT !.queue = Append(@, chunk)]

\* controller.close(): the stream closes once its queue has been read
Close(s) ==
  IF s.queue = <<>> THEN [s EXCEPT !.state = "closed", !.closeRequested = TRUE]
  ELSE [s EXCEPT !.closeRequested = TRUE]

\* variant: the catch block closes the stream instead of erroring it
CloseOnError(s) == [s EXCEPT !.closeRequested = TRUE]

\* variant: the catch block swallows the error
ErrorIgnored(s) == s

\* controller.error(e): the queue is reset and the stream is errored
Error(s) == [s EXCEPT !.state = "errored", !.queue = <<>>]

\* one read() of the response body's reader while chunks are queued
ReadChunk(s) ==
  LET rest == Tail(s.queue)
  IN [s EXCEPT !.queue = rest,
               !.state = IF rest = <<>> /\ s.closeRequested
                           THEN "closed" ELSE @]

----------------------------------------------------------------------------
(* POST, lines 32-129 *)

HandlerIdle ==
  /\ pc = "idle"
  /\ request = <<>>
  /\ messagesRes = <<>>
  /\ messages = <<>>
  /\ response = NoResponse
  /\ geminiCalls = <<>>
  /\ togetherCalls = <<>>
  /\ startPc = "none"
  /\ upstream = <<>>
  /\ stream = NoStream
  /\ emitted = <<>>
  /\ delivered = <<>>

Init ==
  /\ store \in Stores
  /\ HandlerIdle
  /\ selPc = "off"
  /\ history = <<>>
  /\ stripped = <<>>
  /\ restripped = <<>>
  /\ capped = <<>>

\* lines 60-64
SelectMessages(rows) == CapMessages(optimizeMessagesForTokens(Parse(rows)))

\* The handler up to the Response it returns.  providerOk is whether the
\* provider call of line 73 or line 120 resolves; when it rejects, the
\* exception leaves POST.
Post(messageId, model, providerOk) ==
  /\ pc = "idle"
  /\ request' = <<[messageId |-> messageId, model |-> model]>>
  /\ LET message == findUnique(store, messageId)
     IN IF message = {}
          THEN /\ response' = NotFound
               /\ pc' = "responded"
               /\ UNCHANGED <<messagesRes, messages, geminiCalls,
                              togetherCalls, startPc, stream>>
          ELSE
            LET m == CHOOSE r \in message : TRUE
                rows == findMany(store, m.chatId, m.position)
            IN /\ messagesRes' = rows
               /\ IF ~ParseOk(rows)
                    THEN /\ response' = Unhandled
                         /\ pc' = "responded"
                         /\ UNCHANGED <<messages, geminiCalls, togetherCalls,
                                        startPc, stream>>
                    ELSE
                      /\ messages' = SelectMessages(rows)
                      /\ IF UsesGemini(model)
                           THEN /\ geminiCalls' =
                                     Append(geminiCalls, GeminiRequest(messages'))
                                /\ UNCHANGED togetherCalls
                                /\ IF providerOk
                                     THEN /\ stream' = NewStream
                                          /\ startPc' = "loop"
                                          /\ response' = SseResponse
                                          /\ pc' = "streaming"
                                     ELSE /\ response' = Unhandled
                                          /\ pc' = "responded"
                                          /\ UNCHANGED <<startPc, stream>>
                           ELSE /\ togetherCalls' =
                                     Append(togetherCalls,
                                            TogetherRequest(model, messages'))
                                /\ UNCHANGED <<geminiCalls, startPc, stream>>
                                /\ response' = IF providerOk
                                                 THEN ForwardedResponse
                                                 ELSE Unhandled
                                /\ pc' = "responded"
  /\ UNCHANGED <<store, upstream, emitted, delivered, selectorVars>>

\* lines 87-97: result.stream yields a chunk whose text() is `text`
StartChunk(text) ==
  /\ startPc = "loop"
  /\ Len(upstream) < MaxChunks
  /\ upstream' = Append(upstream, text)
  /\ IF text # ""
       THEN /\ stream' = Enqueue(stream, DataEvent(text))
            /\ emitted' = Append(emitted, DataEvent(text))
       ELSE UNCHANGED <<stream, emitted>>
  /\ UNCHANGED <<store, pc, request, messagesRes, messages, response,
                 geminiCalls, togetherCalls, startPc, delivered, selectorVars>>

\* lines 98-99: result.stream is exhausted
StartEnd ==
  /\ startPc = "loop"
  /\ stream' = Close(Enqueue(stream, DoneEvent))
  /\ emitted' = Append(emitted, DoneEvent)
  /\ startPc' = "finished"
  /\ UNCHANGED <<store, pc, request, messagesRes, messages, response,
                 geminiCalls, togetherCalls, upstream, delivered, selectorVars>>

\* lines 100-102: awaiting the next chunk, or its text(), throws
StartThrow ==
  /\ startPc = "loop"
  /\ stream' = Error(stream)
  /\ startPc' = "failed"
  /\ UNCHANGED <<store, pc, request, messagesRes, messages, response,
                 geminiCalls, togetherCalls, upstream, emitted, delivered,
                 selectorVars>>

\* the consumer of the Response body (line 106) reads one queued chunk
Read ==
  /\ stream.state = "readable"
  /\ stream.queue # <<>>
  /\ delivered' = Append(delivered, Head(stream.queue))
  /\ stream' = ReadChunk(stream)
  /\ UNCHANGED <<store, pc, request, messagesRes, messages, response,
                 geminiCalls, togetherCalls, startPc, upstream, emitted,
                 selectorVars>>

StartStep == (\E text \in ChunkTexts : StartChunk(text)) \/ StartEnd \/ StartThrow

Next ==
  \/ \E messageId \in MessageIds, model \in Models, providerOk \in BOOLEAN :
       Post(messageId, model, providerOk)
  \/ \E text \in ChunkTexts : StartChunk(text)
  \/ StartEnd
  \/ StartThrow
  \/ Read

Spec == Init /\ [][Next]_vars

\* the event loop resumes start() whenever the upstream sequence settles
FairSpec == Spec /\ WF_vars(StartStep)

----------------------------------------------------------------------------
(* The message selector applied to enumerated histories *)

Tokens == {Fence, <<BT>>, <<"a">>, <<" ">>}

RECURSIVE Flatten(_)
Flatten(parts) == IF parts = <<>> THEN <<>> ELSE Head(parts) \o Flatten(Tail(parts))

Contents == {Flatten(parts) : parts \in UNION {[1..n -> Tokens] : n \in 0..MaxTokens}}

\* an early assistant message with the given content, followed by two more
ContentProbe(content) ==
  << [role |-> "assistant", content |-> content],
     [role |-> "assistant", content |-> Fence \o Fence],
     [role |-> "assistant", content |-> <<"a">>] >>

ShortContents == {<<"a">>, <<" ">> \o Fence \o <<"a">> \o Fence \o <<" ", "b">>}

ShortHistories ==
  UNION {[1..n -> [role : Roles, content : ShortContents]] : n \in 0..MaxList}

DialogueHistory(n) ==
  [k \in 1..n |-> [role |-> DialogueRow(k - 1).role,
                   content |-> DialogueRow(k - 1).content]]

LongHistories == {DialogueHistory(n) : n \in 0..MaxHist}

SelectorInputs ==
  ShortHistories \cup {ContentProbe(c) : c \in Contents} \cup LongHistories

SelectorInit ==
  /\ store = ExampleStore
  /\ HandlerIdle
  /\ selPc = "input"
  /\ history \in SelectorInputs
  /\ stripped = <<>>
  /\ restripped = <<>>
  /\ capped = <<>>

\* line 60
Strip ==
  /\ selPc = "input"
  /\ stripped' = optimizeMessagesForTokens(history)
  /\ selPc' = "stripped"
  /\ UNCHANGED <<history, restripped, capped, handlerVars>>

\* line 60 applied to its own output
Restrip ==
  /\ selPc = "stripped"
  /\ restripped' = optimizeMessagesForTokens(stripped)
  /\ selPc' = "restripped"
  /\ UNCHANGED <<history, stripped, capped, handlerVars>>

\* lines 62-64
Cap ==
  /\ selPc = "restripped"
  /\ capped' = CapMessages(stripped)
  /\ selPc' = "capped"
  /\ UNCHANGED <<history, stripped, restripped, handlerVars>>

SelectorNext == Strip \/ Restrip \/ Cap

SelectorSpec == SelectorInit /\ [][SelectorNext]_vars

----------------------------------------------------------------------------
(* Vocabulary of the properties *)

IsPrefix(a, b) == Len(a) <= Len(b) /\ SubSeq(b, 1, Len(a)) = a

RECURSIVE IsSubsequence(_, _)
IsSubsequence(a, b) ==
  IF a = <<>> THEN TRUE
  ELSE IF b = <<>> THEN FALSE
  ELSE IF Head(a) = Head(b) THEN IsSubsequence(Tail(a), Tail(b))
  ELSE IsSubsequence(a, Tail(b))

\* the character with a given code
CharOf(code) ==
  IF code = 10 THEN "\n"
  ELSE IF code = 9 THEN "\t"
  ELSE IF code < 96 THEN CharAt(AsciiLow, code - 31)
  ELSE CharAt(AsciiHigh, code - 96)

RECURSIVE DecodeFrom(_, _)
DecodeFrom(bytes, i) ==
  IF i > Len(bytes) THEN "" ELSE CharOf(bytes[i]) \o DecodeFrom(bytes, i + 1)

\* new TextDecoder().decode(bytes)
Decode(bytes) == DecodeFrom(bytes, 1)

\* the body of a JSON string literal read back: ok is FALSE when it holds a
\* bare quote or an unknown escape
RECURSIVE UnescapeFrom(_, _)
UnescapeFrom(s, i) ==
  IF i > Len(s) THEN [ok |-> TRUE, text |-> ""]
  ELSE IF CharAt(s, i) = "\""  THEN [ok |-> FALSE, text |-> ""]
  ELSE IF CharAt(s, i) = "\\"
    THEN IF i + 1 > Len(s) THEN [ok |-> FALSE, text |-> ""]
         ELSE LET e == CharAt(s, i + 1)
                  rest == UnescapeFrom(s, i + 2)
                  c == IF e = "n" THEN "\n" ELSE IF e = "t" THEN "\t" ELSE e
              IN [ok |-> rest.ok /\ e \in {"\"", "\\", "n", "t"},
                  text |-> c \o rest.text]
  ELSE LET rest == UnescapeFrom(s, i + 1)
       IN [ok |-> rest.ok, text |-> CharAt(s, i) \o rest.text]

EventPrefix == "data: {\"choices\":[{\"delta\":{\"content\":\""
EventSuffix == "\"}}]}\n\n"

\* what a client parsing one `data: <json>` event reads as choices[0].delta.content
EventText(bytes) ==
  LET s == Decode(bytes)
      n == Len(s)
  IN IF /\ n >= Len(EventPrefix) + Len(EventSuffix)
        /\ SubSeq(s, 1, Len(EventPrefix)) = EventPrefix
        /\ SubSeq(s, n - Len(EventSuffix) + 1, n) = EventSuffix
       THEN UnescapeFrom(SubSeq(s, Len(EventPrefix) + 1, n - Len(EventSuffix)), 1)
       ELSE [ok |-> FALSE, text |-> ""]

IsDoneEvent(bytes) == Decode(bytes) = "data: [DONE]\n\n"

\* the upstream texts that are not empty, in order
NonEmptyTexts == SelectSeq(upstream, LAMBDA t : t # "")

\* the events carry exactly the given texts, in order
CarryTexts(events, texts) ==
  /\ Len(events) = Len(texts)
  /\ \A k \in 1..Len(events) :
       EventText(events[k]) = [ok |-> TRUE, text |-> texts[k]]

\* everything the stream holds or has handed to its consumer
Outgoing == delivered \o stream.queue

\* the model name holds the marker: some prefix, "gemini", some suffix
HasMarker(model) ==
  \E i \in 0..Len(model) :
    /\ i + 6 <= Len(model)
    /\ model = SubSeq(model, 1, i) \o "gemini" \o SubSeq(model, i + 7, Len(model))

Requested == request # <<>>

TargetRows == {r \in store : Requested /\ r.id = request[1].messageId}

\* the request got as far as choosing a provider
ReachedDispatch ==
  /\ Requested
  /\ TargetRows # {}
  /\ \A r \in store :
       (\E t \in TargetRows : r.chatId = t.chatId /\ r.position <= t.position)
         => r.role \in {"system", "user", "assistant"}

\* assistant messages after index k
LaterAssistants(msgs, k) ==
  Cardinality({j \in (k + 1)..Len(msgs) : msgs[j].role = "assistant"})

HasFencedBlock(s) ==
  \E i \in 1..Len(s) : \E j \in (i + 3)..Len(s) : FenceAt(s, i) /\ FenceAt(s, j)

IsTrimmed(s) ==
  s = <<>> \/ (~IsWhitespace(s[1]) /\ ~IsWhitespace(s[Len(s)]))

RoleContent(msgs) ==
  [k \in 1..Len(msgs) |-> [role |-> msgs[k].role, content |-> msgs[k].content]]

----------------------------------------------------------------------------
(* Properties *)

\* C1: a request whose messageId matches no stored row is answered with
\* status 404 and no body, and neither provider is called.
C1_NotFound ==
  (Requested /\ TargetRows = {}) =>
    /\ pc = "responded"
    /\ response.kind = "response"
    /\ response.status = 404
    /\ response.body = "null"
    /\ geminiCalls = <<>>
    /\ togetherCalls = <<>>
    /\ stream.state = "none"

C1_Witness ==
  /\ Requested
  /\ request[1].messageId = <<"c9", 0>>
  /\ request[1].model = "gemini-1.5-pro"
  /\ response.status = 404

\* C2: a request that reaches dispatch calls exactly one provider, once:
\* Gemini when the model name holds "gemini" (case-sensitive), otherwise the
\* OpenAI-compatible client; the other provider is never called.
C2_ExactlyOneProvider ==
  ReachedDispatch =>
    IF HasMarker(request[1].model)
      THEN Len(geminiCalls) = 1 /\ togetherCalls = <<>>
      ELSE Len(togetherCalls) = 1 /\ geminiCalls = <<>>
           /\ togetherCalls[1].model = request[1].model

C2_Witness ==
  /\ Requested
  /\ request[1].model = "google/gemini-flash"
  /\ Len(geminiCalls) = 1
  /\ togetherCalls = <<>>
  /\ startPc = "finished"

\* C3: once the upstream sequence has ended normally, the stream holds one
\* data event per chunk with non-empty text, in upstream order and carrying
\* that text, then the [DONE] event last, and it is closed (closing takes
\* effect when the queue has been read).
C3_NormalEnd ==
  startPc = "finished" =>
    /\ Len(Outgoing) = Len(NonEmptyTexts) + 1
    /\ CarryTexts(SubSeq(Outgoing, 1, Len(Outgoing) - 1), NonEmptyTexts)
    /\ IsDoneEvent(Outgoing[Len(Outgoing)])
    /\ stream.closeRequested
    /\ stream.state = (IF stream.queue = <<>> THEN "closed" ELSE "readable")

C3_Witness ==
  /\ startPc = "finished"
  /\ upstream = <<"He", "", "\"\\\n">>
  /\ stream.state = "closed"
  /\ Len(delivered) = 3

\* C4 as stated: after an upstream error the stream is errored, carries no
\* [DONE], is not closed, and every event emitted for the first k chunks is
\* still there (read, or readable from the queue).
C4_EmittedEventsRemain ==
  startPc = "failed" =>
    /\ stream.state = "errored"
    /\ ~stream.closeRequested
    /\ \A k \in 1..Len(emitted) : ~IsDoneEvent(emitted[k])
    /\ Outgoing = emitted

\* C4 amended: after an upstream error the stream is errored, carries no
\* [DONE] and is not closed; the events already read by the consumer stay as
\* read, while events still queued in the stream are discarded.
C4_ErrorKeepsDelivered ==
  [][(startPc' = "failed") =>
       /\ stream'.state = "errored"
       /\ ~stream'.closeRequested
       /\ stream'.queue = <<>>
       /\ CarryTexts(emitted', NonEmptyTexts')
       /\ IsPrefix(delivered', emitted')
       /\ IsPrefix(delivered, delivered')]_vars

C4_Witness ==
  /\ startPc = "failed"
  /\ Len(emitted) = 2
  /\ Len(delivered) = 1

\* C5: capping returns a list of at most 10 entries unchanged, and turns a
\* longer list L into L[0], L[1], L[2] followed by the last 7 entries of L.
C5_Capping ==
  selPc = "capped" =>
    IF Len(stripped) <= 10
      THEN capped = stripped
      ELSE /\ Len(capped) = 10
           /\ \A k \in 1..3 : capped[k] = stripped[k]
           /\ \A k \in 1..7 : capped[3 + k] = stripped[Len(stripped) - 7 + k]

C5_Witness ==
  /\ selPc = "capped"
  /\ Len(stripped) = 12
  /\ capped = <<stripped[1], stripped[2], stripped[3], stripped[6],
                stripped[7], stripped[8], stripped[9], stripped[10],
                stripped[11], stripped[12]>>

\* C6: stripping keeps length and roles; system and user messages and the
\* two most recent assistant messages are identical to the input; an earlier
\* assistant message has its fenced blocks removed and is then trimmed.
C6_StripScope ==
  selPc # "input" =>
    /\ Len(stripped) = Len(history)
    /\ \A k \in 1..Len(history) :
         IF history[k].role = "assistant" /\ LaterAssistants(history, k) >= 2
           THEN /\ stripped[k].role = "assistant"
                /\ stripped[k].content = Trim(RemoveCodeBlocks(history[k].content))
                /\ ~HasFencedBlock(stripped[k].content)
                /\ IsTrimmed(stripped[k].content)
                /\ IsSubsequence(stripped[k].content, history[k].content)
           ELSE stripped[k] = history[k]

C6_Witness ==
  /\ selPc = "stripped"
  /\ Len(history) = 4
  /\ \A k \in 1..4 : history[k].role = "assistant" /\ HasFencedBlock(history[k].content)
  /\ stripped[1] # history[1]
  /\ stripped[2] # history[2]
  /\ stripped[3] = history[3]
  /\ stripped[4] = history[4]

\* C7: stripping a stripped history changes nothing.
C7_Idempotent ==
  selPc \in {"restripped", "capped"} => restripped = stripped

C7_Witness ==
  /\ selPc = "restripped"
  /\ Len(history) = 3
  /\ history[1].content = Fence \o <<"a">> \o Fence \o <<BT>> \o Fence \o Fence
  /\ stripped[1].content = <<BT>>
  /\ restripped = stripped

\* C8: the selected history is taken from the loaded rows in increasing
\* position, without repeats, and its last entry is the requested message.
C8_SelectionOrdered ==
  (ReachedDispatch /\ pc # "idle") =>
    /\ messages # <<>>
    /\ \A k \in 1..Len(messages) :
         \E j \in 1..Len(messagesRes) :
           /\ messagesRes[j].position = messages[k].position
           /\ messagesRes[j].role = messages[k].role
    /\ \A k \in 1..(Len(messages) - 1) :
         messages[k].position < messages[k + 1].position
    /\ \A t \in TargetRows :
         /\ messages[Len(messages)].position = t.position
         /\ \A j \in 1..Len(messagesRes) :
              messagesRes[j].chatId = t.chatId /\ messagesRes[j].position <= t.position
         /\ \A r \in store :
              (r.chatId = t.chatId /\ r.position <= t.position)
                => \E j \in 1..Len(messagesRes) : messagesRes[j] = r

C8_Witness ==
  /\ pc = "responded"
  /\ Len(messagesRes) = 12
  /\ Len(messages) = 10
  /\ messages[4].position = 5
  /\ messages[10].position = 11

\* C9 as stated: for [sys, "hi", "```a```", "```b```", "```c```"] and a model
\* without the marker, the three assistant entries are retained unmodified.
C9_AllThreeUnmodified ==
  (/\ store = ExampleStore
   /\ Requested
   /\ request[1].messageId = <<"c1", 4>>
   /\ ~HasMarker(request[1].model)) =>
    SelectSeq(RoleContent(messages), LAMBDA m : m.role = "assistant")
      = << [role |-> "assistant", content |-> Fence \o <<"a">> \o Fence],
           [role |-> "assistant", content |-> Fence \o <<"b">> \o Fence],
           [role |-> "assistant", content |-> Fence \o <<"c">> \o Fence] >>

\* C9 amended: for that history all five entries are retained; the two most
\* recent assistant entries are unmodified and the earliest one, "```a```",
\* has its content reduced to the empty string.
C9_EarliestStripped ==
  (/\ store = ExampleStore
   /\ Requested
   /\ request[1].messageId = <<"c1", 4>>
   /\ ~HasMarker(request[1].model)) =>
    /\ RoleContent(messages)
         = << [role |-> "system", content |-> <<"s", "y", "s">>],
              [role |-> "user", content |-> <<"h", "i">>],
              [role |-> "assistant", content |-> <<>>],
              [role |-> "assistant", content |-> Fence \o <<"b">> \o Fence],
              [role |-> "assistant", content |-> Fence \o <<"c">> \o Fence] >>
    /\ Len(togetherCalls) = 1
    /\ togetherCalls[1].messages = RoleContent(messages)

C9_Witness ==
  /\ store = ExampleStore
  /\ Requested
  /\ request[1].messageId = <<"c1", 4>>
  /\ request[1].model = "gpt-4o"
  /\ response = ForwardedResponse
  /\ messages[3].content = <<>>

DoneState == stream.closeRequested
ErroredState == stream.state = "errored"
SentinelEmitted == \E k \in 1..Len(emitted) : IsDoneEvent(emitted[k])

\* C10: the stream of the Gemini path ends in exactly one of DONE and
\* ERRORED: the two never hold together, each is kept once reached, nothing
\* is emitted afterwards, [DONE] has been emitted exactly when the stream is
\* DONE, and a started stream always reaches one of them.
C10_Lifecycle ==
  /\ [](~(DoneState /\ ErroredState))
  /\ [](SentinelEmitted <=> DoneState)
  /\ [][(DoneState => DoneState') /\ (ErroredState => ErroredState')]_vars
  /\ [][(DoneState \/ ErroredState) => emitted' = emitted]_vars
  /\ (startPc = "loop") ~> (DoneState \/ ErroredState)

C10_Witness ==
  /\ ErroredState
  /\ Len(upstream) = 2
  /\ Len(emitted) = 2
  /\ Len(delivered) = 2

====
